---- MODULE Spec2Model ----
(***************************************************************************)
(* State-machine model of modules/knowledge_base.py: the KnowledgeBase     *)
(* orchestrator (add_document, build_index, search, save_index,            *)
(* load_index, release), the exact L2 index it drives, and the file        *)
(* system its index artifacts live in.                                     *)
(*                                                                         *)
(* Conventions                                                             *)
(*   - Python None is the integer 0 for `dimension` and the record         *)
(*     NoIndex for `index`.                                                *)
(*   - A text (chunk text or query) is a sequence of characters, an ASCII  *)
(*     character as the string of itself and any other as the string of    *)
(*     its code point ("U66B4"); a path is the sequence of the             *)
(*     dot-separated parts of its file name ("kb.idx" is <<"kb", "idx">>). *)
(*   - A similarity score exp(-distance / dimension) is kept as the exact  *)
(*     exponent [num |-> distance, den |-> dimension]; exp is strictly     *)
(*     increasing, so scores are compared by comparing -num/den.           *)
(*   - frame holds the local variables of a call that is in flight, for    *)
(*     the operations that are modelled statement by statement; it is      *)
(*     Idle while no such call runs.                                       *)
(***************************************************************************)
EXTENDS Integers, Sequences, FiniteSets, TLC

VARIABLES kb, disk, saves, last, frame

vars == <<kb, disk, saves, last, frame>>

(***************************************************************************)
(* Bounds of the model                                                     *)
(***************************************************************************)
\* largest corpus (number of chunk texts) an add_document may grow to
MaxDocs == 2
\* largest top_k a search is called with
MaxTopK == 3
\* save_index calls that write to disk in one run of the lifecycle, and in
\* one run of the round trip
MaxSaves == 1
MaxRoundTripSaves == 2

(***************************************************************************)
(* Small helpers                                                           *)
(***************************************************************************)
Min(a, b) == IF a < b THEN a ELSE b

RECURSIVE SumTo(_, _)
SumTo(s, n) == IF n = 0 THEN 0 ELSE s[n] + SumTo(s, n - 1)
SumSeq(s) == SumTo(s, Len(s))

\* Python's `needle in text` for strings
Contains(text, needle) ==
    \E i \in 0..(Len(text) - Len(needle)) :
        \A j \in 1..Len(needle) : text[i + j] = needle[j]

(***************************************************************************)
(* The two instances of the round-trip test: kb saves, new_kb loads        *)
(***************************************************************************)
Instances == {"kb", "new_kb"}

NoIndex == [present |-> FALSE, d |-> 0, vecs |-> <<>>]

\* KnowledgeBase.__init__: index None, documents [], metadata [], dimension None
FreshKB == [index |-> NoIndex, documents |-> <<>>, metadata |-> <<>>, dimension |-> 0]

\* faiss: index.ntotal (0 when there is no index)
VectorCount(s) == IF s.index.present THEN Len(s.index.vecs) ELSE 0

(***************************************************************************)
(* The embedding provider: self.model.encode                               *)
(***************************************************************************)
\* dimensions an embedding provider may produce
Dims == {2, 3}
\* the provider-fixed dimension of the contract: the smallest of Dims
ModelDim == CHOOSE d \in Dims : \A e \in Dims : d <= e

CharCode(c) ==
    CASE c = "a" -> 1
      [] c = "b" -> 2
      [] c = "c" -> 3
      [] c = "." -> 4
      [] c = "/" -> 5
      [] OTHER -> 0

\* a deterministic stand-in for the sentence encoder: one d-vector per text
Embed(text, d) ==
    [i \in 1..d |-> (SumSeq([j \in 1..Len(text) |-> CharCode(text[j]) * (i + j - 1)])) % 5]

Encode(texts, d) == [i \in 1..Len(texts) |-> Embed(texts[i], d)]

\* outcomes of one call of the provider: it raises, or returns vectors of dimension d
Raises == [ok |-> FALSE, d |-> ModelDim]
Returns(d) == [ok |-> TRUE, d |-> d]
\* a provider that keeps the contract's one dimension, and one that does not
StableOutcomes == {Raises, Returns(ModelDim)}
EmbedOutcomes == {Raises} \cup {Returns(d) : d \in Dims}


(***************************************************************************)
(* Text sanitizer: preprocessing.SensitiveWordFilter.filter_text           *)
(***************************************************************************)
\* str.lower on one character: the ASCII capitals go to their small letters
UpperLetters == <<"A", "B", "C", "D", "E", "F", "G", "H", "I", "J", "K", "L", "M", "N", "O", "P", "Q", "R", "S", "T", "U", "V", "W", "X", "Y", "Z">>
LowerLetters == <<"a", "b", "c", "d", "e", "f", "g", "h", "i", "j", "k", "l", "m", "n", "o", "p", "q", "r", "s", "t", "u", "v", "w", "x", "y", "z">>
LowerOf ==
    [c \in { UpperLetters[k] : k \in 1..Len(UpperLetters) } |->
        LowerLetters[CHOOSE k \in 1..Len(UpperLetters) : UpperLetters[k] = c]]
Lower(c) == IF c \in DOMAIN LowerOf THEN LowerOf[c] ELSE c

\* SENSITIVE_WORDS (lines 9-16): the fifteen entries in CJK characters, then the
\* thirteen in ASCII
SENSITIVE_WORDS ==
    { <<"U66B4", "U529B">>,
      <<"U8272", "U60C5">>,
      <<"U6BD2", "U54C1">>,
      <<"U8D4C", "U535A">>,
      <<"U8BC8", "U9A97">>,
      <<"U6050", "U6016", "U4E3B", "U4E49">>,
      <<"U4EC7", "U6068", "U8A00", "U8BBA">>,
      <<"U81EA", "U6740">>,
      <<"U81EA", "U6B8B">>,
      <<"U513F", "U7AE5", "U8272", "U60C5">>,
      <<"U66B4", "U6050">>,
      <<"U53CD", "U52A8">>,
      <<"U90AA", "U6559">>,
      <<"U67AA", "U652F">>,
      <<"U7206", "U70B8", "U7269">>,
      <<"v","i","o","l","e","n","c","e">>, <<"p","o","r","n">>,
      <<"d","r","u","g","s">>, <<"g","a","m","b","l","i","n","g">>,
      <<"s","c","a","m">>, <<"t","e","r","r","o","r","i","s","m">>,
      <<"h","a","t","e"," ","s","p","e","e","c","h">>,
      <<"s","u","i","c","i","d","e">>, <<"s","e","l","f","-","h","a","r","m">>,
      <<"c","h","i","l","d"," ","a","b","u","s","e">>,
      <<"w","e","a","p","o","n">>, <<"e","x","p","l","o","s","i","v","e">>,
      <<"e","x","t","r","e","m","i","s","m">> }

\* the children of the trie's root: the first characters of the words
RootChildren == { w[1] : w \in SENSITIVE_WORDS }

\* the walk down the trie from position i (1-based): the length of the longest
\* word of the list that the lower-cased text spells from i on, 0 when none
LongestMatch(text, i) ==
    LET hits == { Len(w) : w \in { w \in SENSITIVE_WORDS :
                      /\ Lower(text[i]) \in RootChildren
                      /\ i + Len(w) - 1 <= Len(text)
                      /\ \A j \in 1..Len(w) : Lower(text[i + j - 1]) = w[j] } }
    IN  IF hits = {} THEN 0 ELSE CHOOSE n \in hits : \A m \in hits : m <= n

\* the scan from position i: the characters up to the next position where a
\* word of the list starts are copied, the longest word there becomes "***",
\* and the scan goes on behind it
RECURSIVE FilterFrom(_, _)
FilterFrom(text, i) ==
    LET starts == { j \in i..Len(text) : LongestMatch(text, j) > 0 }
    IN  IF starts = {} THEN SubSeq(text, i, Len(text))
        ELSE LET j == CHOOSE m \in starts : \A o \in starts : m <= o
             IN  SubSeq(text, i, j - 1) \o <<"*", "*", "*">>
                     \o FilterFrom(text, j + LongestMatch(text, j))

filter_text(text) == IF text = <<>> THEN text ELSE FilterFrom(text, 1)

(***************************************************************************)
(* Chunker: KnowledgeBase._chunk_text                                      *)
(***************************************************************************)
CHUNK_SIZE == 512
OVERLAP_SIZE == 50
\* the look-ahead of the boundary scan and the least trimmed length kept
LOOKAHEAD == 50
MIN_LEN == 20

Whitespace == {" ", "\n", "\t", "\r"}
\* line 147: . 。 ; ； ! ！ ? ？ and the newline
boundary_chars == {".", "U3002", ";", "UFF1B", "!", "UFF01", "?", "UFF1F", "\n"}

\* len(text.strip())
RECURSIVE StripLeft(_)
StripLeft(t) == IF t # <<>> /\ Head(t) \in Whitespace THEN StripLeft(Tail(t)) ELSE t
RECURSIVE StripRight(_)
StripRight(t) ==
    IF t # <<>> /\ t[Len(t)] \in Whitespace THEN StripRight(SubSeq(t, 1, Len(t) - 1)) ELSE t
Strip(t) == StripRight(StripLeft(t))

\* the slice that leaves out its first character
SliceAfterStart(text, start, end) == SubSeq(text, start + 2, end)

\* text[start:end] with 0-based, end-exclusive offsets
Slice(text, start, end) == SubSeq(text, start + 1, end)

\* the window cut in front of the boundary character instead of behind it
WindowEndBeforeBoundary(text, start) ==
    LET text_len == Len(text)
        end == Min(start + CHUNK_SIZE, text_len)
        found == { i \in end..(Min(end + LOOKAHEAD, text_len) - 1) :
                       text[i + 1] \in boundary_chars }
    IN  IF end < text_len /\ found # {}
        THEN CHOOSE i \in found : \A j \in found : i <= j
        ELSE end

\* lines 142-151: the window's end, snapped to just past the first boundary
\* character found in text[end : end + 50)
WindowEnd(text, start) ==
    LET text_len == Len(text)
        end == Min(start + CHUNK_SIZE, text_len)
        found == { i \in end..(Min(end + LOOKAHEAD, text_len) - 1) :
                       text[i + 1] \in boundary_chars }
    IN  IF end < text_len /\ found # {}
        THEN (CHOOSE i \in found : \A j \in found : i <= j) + 1
        ELSE end

\* the overlap taken unconditionally
NextStartAlwaysOverlaps(start, end) == end - OVERLAP_SIZE

\* line 165
NextStart(start, end) == IF (end - OVERLAP_SIZE) > start THEN end - OVERLAP_SIZE ELSE end

\* the length test on the chunk as cut, not trimmed
KeepsChunkUntrimmed(chunk) == Len(chunk) > MIN_LEN

\* line 156: a chunk is kept when its trimmed length exceeds 20
KeepsChunk(chunk) == Len(Strip(chunk)) > MIN_LEN

RECURSIVE ChunkLoop(_, _, _, _)
ChunkLoop(text, source, page, start) ==
    IF ~(start < Len(text)) THEN <<>>
    ELSE LET end == WindowEnd(text, start)
             chunk == Slice(text, start, end)
             emitted == IF KeepsChunk(chunk)
                        THEN << [text |-> chunk,
                                 meta |-> [source |-> source, page |-> page,
                                           start |-> start, end |-> end]] >>
                        ELSE <<>>
         IN  emitted \o ChunkLoop(text, source, page, NextStart(start, end))

_chunk_text(text, source, page) ==
    IF Strip(text) = <<>> THEN <<>>
    ELSE ChunkLoop(filter_text(text), source, page, 0)

(***************************************************************************)
(* Document files and the loader: KnowledgeBase.load_document              *)
(***************************************************************************)
Rep(c, n) == [i \in 1..n |-> c]

\* the documents on disk: a three-page PDF, a text file, a text file too short
\* to give a chunk, a file of an unsupported type, a path with no file, a PDF
\* of exactly the largest size, a PDF one byte larger, and a Word file that
\* cannot be read
APdf == <<"docs/a", "pdf">>
BTxt == <<"docs/b", "TXT">>
ShortTxt == <<"drafts/short", "txt">>
NotesMd == <<"docs/notes", "md">>
GoneTxt == <<"docs/gone", "txt">>
EdgePdf == <<"docs/edge", "PDF">>
BigPdf == <<"docs/big", "pdf">>
BadDocx == <<"docs/bad", "docx">>
DocFiles == {APdf, BTxt, ShortTxt, NotesMd, GoneTxt, EdgePdf, BigPdf, BadDocx}

\* each file's extracted text units (pages); ok = FALSE is a page whose
\* extraction raises
FilePages(f) ==
    CASE f = APdf -> << [ok |-> TRUE, text |-> Rep("a", 21)],
                        [ok |-> FALSE, text |-> <<>>],
                        [ok |-> TRUE, text |-> Rep("a", 20) \o <<".", "b", "c">>] >>
      [] f = BTxt -> << [ok |-> TRUE, text |-> Rep("b", 22) \o <<" ", "S", "c", "A", "m">>] >>
      [] f = ShortTxt -> << [ok |-> TRUE, text |-> Rep("c", 20)] >>
      [] f = NotesMd -> << [ok |-> TRUE, text |-> Rep("c", 30)] >>
      [] f = EdgePdf -> << [ok |-> TRUE, text |-> Rep("b", 25)] >>
      [] f = BigPdf -> << [ok |-> TRUE, text |-> Rep("b", 25)] >>
      [] f = BadDocx -> << [ok |-> FALSE, text |-> <<>>] >>
      [] OTHER -> <<>>

\* os.path.exists
FileExists(f) == f \in DocFiles \ {GoneTxt}

\* os.path.splitext(file_path)[1].lower(), without the dot
LowerExt(e) ==
    CASE e = "TXT" -> "txt"
      [] e = "PDF" -> "pdf"
      [] e = "DOCX" -> "docx"
      [] OTHER -> e
Ext(f) == IF Len(f) > 1 THEN LowerExt(f[Len(f)]) ELSE ""

SUPPORTED_EXTENSIONS == {"pdf", "txt", "docx"}
\* 50 * 1024 * 1024
max_file_size == 52428800

\* os.path.getsize: the two large PDFs have their size given, every other
\* file is as large as its text
FileSize(f) ==
    CASE f = EdgePdf -> max_file_size
      [] f = BigPdf -> max_file_size + 1
      [] OTHER -> SumSeq([i \in 1..Len(FilePages(f)) |-> Len(FilePages(f)[i].text)])

\* the size test with >= for >
TooLargeAtLimit(f) == FileSize(f) >= max_file_size

\* line 86
TooLarge(f) == FileSize(f) > max_file_size

\* _handle_pdf: one chunk list per page, a page that raises or has no text is
\* skipped; _handle_text and _handle_docx: the whole text as page 0, and an
\* extraction that raises is caught by load_document (line 92)
RECURSIVE HandlePages(_, _, _)
HandlePages(f, pages, page_num) ==
    IF pages = <<>> THEN <<>>
    ELSE (IF Head(pages).ok /\ Head(pages).text # <<>>
          THEN _chunk_text(Head(pages).text, f, page_num)
          ELSE <<>>) \o HandlePages(f, Tail(pages), page_num + 1)

HandleFile(f) ==
    IF Ext(f) = "pdf" THEN HandlePages(f, FilePages(f), 0)
    ELSE IF FilePages(f) # <<>> /\ FilePages(f)[1].ok
         THEN _chunk_text(FilePages(f)[1].text, f, 0)
         ELSE <<>>

\* load_document (lines 73-94): the chunks it returns, and the extractor it
\* handed the file to ("skipped" when it returned before line 91)
load_document(f) ==
    IF ~FileExists(f) THEN [chunks |-> <<>>, handler |-> "skipped"]
    ELSE IF Ext(f) \notin SUPPORTED_EXTENSIONS THEN [chunks |-> <<>>, handler |-> "skipped"]
    ELSE IF TooLarge(f) THEN [chunks |-> <<>>, handler |-> "skipped"]
    ELSE [chunks |-> HandleFile(f), handler |-> Ext(f)]

\* every file's chunks, computed once: load_document is a function of the
\* file alone
LoadedChunks == [f \in DocFiles |-> load_document(f).chunks]

\* the directories build_index is called on: each entry is a file or not
\* (a subdirectory); NoDir is not a directory
DocsDir == "docs"
DraftsDir == "drafts"
NoDir == "nowhere"
Directories == {DocsDir, DraftsDir, NoDir}
IsDir(dir) == dir \in {DocsDir, DraftsDir}
ListDir(dir) ==
    CASE dir = DocsDir -> { [path |-> APdf, is_file |-> TRUE],
                            [path |-> BTxt, is_file |-> TRUE] }
      [] dir = DraftsDir -> { [path |-> ShortTxt, is_file |-> TRUE],
                              [path |-> <<"drafts/old">>, is_file |-> FALSE] }
      [] OTHER -> {}

\* the orders os.listdir may return a directory's entries in
Listings(dir) ==
    { l \in [1..Cardinality(ListDir(dir)) -> ListDir(dir)] :
          \A i, j \in DOMAIN l : i # j => l[i] # l[j] }

(***************************************************************************)
(* Vector index: faiss.IndexFlatL2                                         *)
(***************************************************************************)
IndexFlatL2(d) == [present |-> TRUE, d |-> d, vecs |-> <<>>]

\* index.add: the wrapper asserts that the vectors have the index's dimension
IndexAddOk(index, embeddings) == \A i \in 1..Len(embeddings) : Len(embeddings[i]) = index.d
IndexAdd(index, embeddings) == [index EXCEPT !.vecs = @ \o embeddings]

\* squared Euclidean distance
L2(x, y) == SumSeq([i \in 1..Len(x) |-> (x[i] - y[i]) * (x[i] - y[i])])

\* index.search(q, k): k (id, distance) pairs, nearest first, equal distances
\* in ascending id order, padded with id -1 when the index holds fewer than
\* k vectors; ids are 0-based
RECURSIVE InsertHit(_, _)
InsertHit(sorted, h) ==
    IF sorted = <<>> THEN <<h>>
    ELSE IF h.distance < Head(sorted).distance THEN <<h>> \o sorted
    ELSE <<Head(sorted)>> \o InsertHit(Tail(sorted), h)

RECURSIVE NearestFirst(_, _, _)
NearestFirst(vecs, q, n) ==
    IF n = 0 THEN <<>>
    ELSE InsertHit(NearestFirst(vecs, q, n - 1), [id |-> n - 1, distance |-> L2(vecs[n], q)])

FaissSearch(index, q, k) ==
    LET nearest == NearestFirst(index.vecs, q, Len(index.vecs))
    IN  [r \in 1..k |-> IF r <= Len(nearest) THEN nearest[r]
                        ELSE [id |-> -1, distance |-> -1]]

(***************************************************************************)
(* Similarity scores and the final sort of search                          *)
(***************************************************************************)
\* np.exp(-distance / self.dimension), kept as its exponent -num/den
Similarity(distance, dimension) == [num |-> distance, den |-> dimension]
ScoreGreater(a, b) == a.num * b.den < b.num * a.den
ScoreEqual(a, b) == a.num * b.den = b.num * a.den

\* results.sort(key=lambda x: x[2], reverse=True): a stable sort, equal
\* scores keep the order they had
RECURSIVE SortInsert(_, _)
SortInsert(sorted, x) ==
    IF sorted = <<>> THEN <<x>>
    ELSE IF ScoreGreater(x.score, Head(sorted).score) THEN <<x>> \o sorted
    ELSE <<Head(sorted)>> \o SortInsert(Tail(sorted), x)

\* the sort without reverse=True: ascending by score
RECURSIVE AscInsert(_, _)
AscInsert(sorted, x) ==
    IF sorted = <<>> THEN <<x>>
    ELSE IF ScoreGreater(Head(sorted).score, x.score) THEN <<x>> \o sorted
    ELSE <<Head(sorted)>> \o AscInsert(Tail(sorted), x)

RECURSIVE SortAscending(_)
SortAscending(results) ==
    IF results = <<>> THEN <<>>
    ELSE AscInsert(SortAscending(SubSeq(results, 1, Len(results) - 1)),
                   results[Len(results)])

RECURSIVE SortDescending(_)
SortDescending(results) ==
    IF results = <<>> THEN <<>>
    ELSE SortInsert(SortDescending(SubSeq(results, 1, Len(results) - 1)),
                    results[Len(results)])

(***************************************************************************)
(* KnowledgeBase operations, as functions of the instance state s.  Each   *)
(* returns the new state and what the caller observes: ret, and whether    *)
(* the embedding provider was called (encoded).                            *)
(***************************************************************************)
Texts(chunks) == [i \in 1..Len(chunks) |-> chunks[i].text]
Metas(chunks) == [i \in 1..Len(chunks) |-> chunks[i].meta]

\* release without its last assignment: the dimension is kept
ReleaseKeepsDimension(s) == [s EXCEPT !.index = NoIndex, !.documents = <<>>, !.metadata = <<>>]

\* release (lines 65-71)
release(s) ==
    [s EXCEPT !.index = NoIndex, !.documents = <<>>, !.metadata = <<>>, !.dimension = 0]

\* lines 204-210 without line 206: self.dimension keeps what it held
InitIndexDimensionKept(s, texts, meta_list, embeddings, d) ==
    [index |-> IndexAdd(IndexFlatL2(d), embeddings),
     documents |-> texts,
     metadata |-> meta_list,
     dimension |-> s.dimension]

\* lines 204-210: the first batch creates the index and fixes the dimension
InitIndex(s, texts, meta_list, embeddings, d) ==
    [index |-> IndexAdd(IndexFlatL2(d), embeddings),
     documents |-> texts,
     metadata |-> meta_list,
     dimension |-> d]

\* the dimension check left out
DimensionNotChecked(s, d) == TRUE

\* line 213: the batch has the established dimension
DimensionMatches(s, d) == d = s.dimension

\* AppendChunks with the batch's metadata put in front of the list
AppendChunksMetaFirst(s, texts, meta_list, embeddings) ==
    [s EXCEPT !.index = IndexAdd(@, embeddings),
              !.documents = @ \o texts,
              !.metadata = meta_list \o @]

\* AppendChunks without the last line: the metadata list is not extended
AppendChunksNoMeta(s, texts, meta_list, embeddings) ==
    [s EXCEPT !.index = IndexAdd(@, embeddings),
              !.documents = @ \o texts]

\* lines 217-219: a later batch is appended to the index and to both lists
AppendChunks(s, texts, meta_list, embeddings) ==
    [s EXCEPT !.index = IndexAdd(@, embeddings),
              !.documents = @ \o texts,
              !.metadata = @ \o meta_list]

\* the texts and metadata extended before the embeddings are there
EncodeRaisedAfterExtend(s, texts, meta_list) ==
    [state |-> [s EXCEPT !.documents = @ \o texts, !.metadata = @ \o meta_list],
     ret |-> "raised", encoded |-> TRUE]

\* line 199 raises: no statement of add_document has assigned anything yet
EncodeRaised(s, texts, meta_list) == [state |-> s, ret |-> "raised", encoded |-> TRUE]

\* lines 195-221 of add_document: what it does with the chunks load_document
\* returned; eo is the outcome of self.model.encode
AddChunks(s, chunks_with_meta, eo) ==
    LET texts == Texts(chunks_with_meta)
        meta_list == Metas(chunks_with_meta)
        embeddings == Encode(texts, eo.d)
    IN  IF chunks_with_meta = <<>>
        THEN [state |-> s, ret |-> "no_chunks", encoded |-> FALSE]
        ELSE IF ~eo.ok
        THEN EncodeRaised(s, texts, meta_list)
        ELSE IF ~s.index.present
        THEN [state |-> InitIndex(s, texts, meta_list, embeddings, eo.d),
              ret |-> "added", encoded |-> TRUE]
        ELSE IF ~DimensionMatches(s, eo.d)
        THEN [state |-> s, ret |-> "dimension_mismatch", encoded |-> TRUE]
        ELSE IF ~IndexAddOk(s.index, embeddings)
        THEN [state |-> s, ret |-> "raised", encoded |-> TRUE]
        ELSE [state |-> AppendChunks(s, texts, meta_list, embeddings),
              ret |-> "added", encoded |-> TRUE]

\* add_document (lines 189-221)
add_document(s, f, eo) == AddChunks(s, LoadedChunks[f], eo)

\* build_index (lines 169-187): the loop over the listing; an add_document that
\* raises ends the loop and the call
RECURSIVE BuildLoop(_, _, _)
BuildLoop(s, listing, eos) ==
    IF listing = <<>> THEN [state |-> s, ret |-> "done", encoded |-> FALSE]
    ELSE IF ~Head(listing).is_file THEN BuildLoop(s, Tail(listing), eos)
    ELSE LET r == add_document(s, Head(listing).path, Head(eos))
         IN  IF r.ret = "raised" THEN r
             ELSE BuildLoop(r.state, Tail(listing), Tail(eos))

\* the build without lines 177-179: files are added to what is there
ResetSkipped(s) == s

\* lines 177-179: index, texts and metadata are dropped; self.dimension is
\* not assigned
ResetForBuild(s) == [s EXCEPT !.index = NoIndex, !.documents = <<>>, !.metadata = <<>>]

build_index(s, dir, listing, eos) ==
    IF ~IsDir(dir) THEN [state |-> s, ret |-> "not_a_directory", encoded |-> FALSE]
    ELSE BuildLoop(ResetForBuild(s), listing, eos)

\* search (lines 224-264); eo is the outcome of self.model.encode([query])
SearchHits(s, hits) ==
    LET keep(i) == 0 <= hits[i].id /\ hits[i].id < Len(s.documents)
        RECURSIVE Collect(_)
        Collect(i) ==
            IF i > Len(hits) THEN <<>>
            ELSE (IF keep(i)
                  THEN << [text |-> s.documents[hits[i].id + 1],
                           meta |-> s.metadata[hits[i].id + 1],
                           score |-> Similarity(hits[i].distance, s.dimension)] >>
                  ELSE <<>>) \o Collect(i + 1)
    IN  Collect(1)

\* the guard without its second test
QueryRejectedDotsOnly(query) == Contains(query, <<".", ".">>)

\* line 226: the path-injection guard
QueryRejected(query) == Contains(query, <<".", ".">>) \/ Contains(query, <<"/">>)

\* the test for an unbuilt knowledge base left out
NotBuiltNotChecked(s) == FALSE

\* line 228: nothing to search
NotBuilt(s) == ~s.index.present \/ s.documents = <<>>

search(s, query, top_k, eo) ==
    LET k == Min(top_k, Len(s.documents))
        query_embedding == Embed(query, eo.d)
        hits == FaissSearch(s.index, query_embedding, k)
        \* documents[idx] exists but metadata[idx] does not: IndexError; a
        \* division by a dimension of None: TypeError
        index_error == \E i \in 1..Len(hits) :
                           /\ 0 <= hits[i].id /\ hits[i].id < Len(s.documents)
                           /\ hits[i].id >= Len(s.metadata)
    IN  IF QueryRejected(query)
        THEN [ret |-> "ok", results |-> <<>>, encoded |-> FALSE]
        ELSE IF NotBuilt(s)
        THEN [ret |-> "ok", results |-> <<>>, encoded |-> FALSE]
        ELSE IF ~eo.ok
        THEN [ret |-> "raised", results |-> <<>>, encoded |-> TRUE]
        ELSE IF k <= 0
        THEN [ret |-> "ok", results |-> <<>>, encoded |-> TRUE]
        ELSE IF eo.d # s.index.d
        THEN [ret |-> "ok", results |-> <<>>, encoded |-> TRUE]
        ELSE IF index_error \/ (s.dimension = 0 /\ SearchHits(s, hits) # <<>>)
        THEN [ret |-> "raised", results |-> <<>>, encoded |-> TRUE]
        ELSE [ret |-> "ok", results |-> SortDescending(SearchHits(s, hits)),
              encoded |-> TRUE]

(***************************************************************************)
(* Index artifacts on disk: save_index and load_index                      *)
(***************************************************************************)
\* pathlib's with_suffix: the last dot-part of the name, when the name has
\* one, is replaced by the new suffix; otherwise the suffix is appended
with_suffix(path, suffix) ==
    IF Len(path) > 1 THEN SubSeq(path, 1, Len(path) - 1) \o suffix ELSE path \o suffix

DocPath(index_path) == with_suffix(index_path, <<"docs", "npy">>)
MetaPath(index_path) == with_suffix(index_path, <<"meta", "npy">>)

KbIdx == <<"kb", "idx">>
KbBin == <<"kb", "bin">>
NoneIdx == <<"none", "idx">>
\* the paths save_index and load_index are called with
IndexPaths == {KbIdx, KbBin, NoneIdx}
DiskPaths ==
    IndexPaths \cup {DocPath(p) : p \in IndexPaths} \cup {MetaPath(p) : p \in IndexPaths}

\* what a file holds: nothing (absent), a faiss index of dimension d with
\* vectors items, a pickled object array (npy) of items, or a truncated write
Absent == [kind |-> "absent", d |-> 0, items |-> <<>>]
Truncated == [kind |-> "truncated", d |-> 0, items |-> <<>>]
FaissFile(index) == [kind |-> "faiss", d |-> index.d, items |-> index.vecs]
NpyFile(list) == [kind |-> "npy", d |-> 0, items |-> list]

\* faiss.read_index and np.load(...).tolist() of a readable file
ReadIndex(file) == [present |-> TRUE, d |-> file.d, vecs |-> file.items]
NpLoad(file) == file.items

\* a save's writes in order: the index, the texts, the metadata; wo is the
\* number of artifacts written before a write raises (3: none raises), and
\* the write that raises leaves its file truncated
WriteOutcomes == 0..3

\* save_index (lines 292-312)
save_index(s, index_path, wo, d) ==
    LET doc_path == DocPath(index_path)
        meta_path == MetaPath(index_path)
        d1 == [d EXCEPT ![index_path] = IF wo >= 1 THEN FaissFile(s.index) ELSE Truncated]
        d2 == [d1 EXCEPT ![doc_path] = IF wo >= 2 THEN NpyFile(s.documents) ELSE Truncated]
        d3 == [d2 EXCEPT ![meta_path] = IF wo >= 3 THEN NpyFile(s.metadata) ELSE Truncated]
    IN  IF ~s.index.present THEN [disk |-> d, ret |-> FALSE]
        ELSE IF wo = 0 THEN [disk |-> d1, ret |-> FALSE]
        ELSE IF wo = 1 THEN [disk |-> d2, ret |-> FALSE]
        ELSE IF wo = 2 THEN [disk |-> d3, ret |-> FALSE]
        ELSE [disk |-> d3, ret |-> TRUE]

\* the companions looked for under names no save_index writes
CompanionsNeverFound(d, index_path) == FALSE

\* line 280: both companion artifacts exist
CompanionsExist(d, index_path) ==
    d[DocPath(index_path)].kind # "absent" /\ d[MetaPath(index_path)].kind # "absent"

\* load_index (lines 266-290)
load_index(s, index_path, d) ==
    LET doc_path == DocPath(index_path)
        meta_path == MetaPath(index_path)
        failed(t) == [state |-> [t EXCEPT !.index = NoIndex, !.dimension = 0], ret |-> FALSE]
        s1 == [s EXCEPT !.index = ReadIndex(d[index_path]), !.dimension = d[index_path].d]
        s2 == [s1 EXCEPT !.documents = NpLoad(d[doc_path])]
        s3 == [s2 EXCEPT !.metadata = NpLoad(d[meta_path])]
    IN  IF d[index_path].kind = "absent" THEN [state |-> s, ret |-> FALSE]
        ELSE IF d[index_path].kind # "faiss" THEN failed(s)
        ELSE IF ~CompanionsExist(d, index_path)
        THEN [state |-> s1, ret |-> TRUE]
        ELSE IF d[doc_path].kind # "npy" THEN failed(s1)
        ELSE IF d[meta_path].kind # "npy" THEN failed(s2)
        ELSE [state |-> s3, ret |-> TRUE]

(***************************************************************************)
(* The state machine                                                       *)
(***************************************************************************)
BenignQuery == <<"b", "c">>
DotsQuery == <<"a", ".", ".">>
SlashQuery == <<"a", "/", "b">>
\* two dots that are not adjacent: not rejected
SpacedDotsQuery == <<".", "a", ".">>
TopKs == {0, 1, MaxTopK}
\* the calls of search: the benign query with every top_k, the others with one
SearchCalls ==
    {[query |-> BenignQuery, top_k |-> k] : k \in TopKs}
        \cup {[query |-> DotsQuery, top_k |-> MaxTopK],
              [query |-> SlashQuery, top_k |-> 1],
              [query |-> SpacedDotsQuery, top_k |-> MaxTopK]}

\* what the caller of the last operation saw: its result (ret, results),
\* whether the provider was called (encoded) and the dimension of what it
\* returned (dim, 0 when it was not called or raised)
Observed(op, inst, arg, top_k, ret, results, encoded, dim) ==
    [op |-> op, inst |-> inst, arg |-> arg, top_k |-> top_k, ret |-> ret,
     results |-> results, encoded |-> encoded, dim |-> dim]

ReturnedDim(encoded, eo) == IF encoded /\ eo.ok THEN eo.d ELSE 0

\* no call is in flight
Idle == [op |-> "idle"]

Init ==
    /\ frame = Idle
    /\ kb = [i \in Instances |-> FreshKB]
    /\ disk = [p \in DiskPaths |-> Absent]
    /\ saves = 0
    /\ last = Observed("init", "kb", <<>>, 0, "ok", <<>>, FALSE, 0)

Release(i) ==
    /\ kb' = [kb EXCEPT ![i] = release(kb[i])]
    /\ last' = Observed("release", i, <<>>, 0, "ok", <<>>, FALSE, 0)
    /\ UNCHANGED <<disk, saves, frame>>

AddDocument(i, files, outcomes) ==
    \E f \in files, eo \in outcomes :
        LET r == add_document(kb[i], f, eo)
        IN  /\ Len(r.state.documents) <= MaxDocs
            /\ kb' = [kb EXCEPT ![i] = r.state]
            /\ last' = Observed("add_document", i, f, 0, r.ret, <<>>, r.encoded,
                                ReturnedDim(r.encoded, eo))
            /\ UNCHANGED <<disk, saves, frame>>

BuildIndex(i, dirs, outcomes) ==
    \E dir \in dirs :
        \E listing \in Listings(dir) :
            \E eos \in [1..Cardinality({e \in ListDir(dir) : e.is_file}) -> outcomes] :
                LET r == build_index(kb[i], dir, listing, eos)
                IN  /\ kb' = [kb EXCEPT ![i] = r.state]
                    /\ last' = Observed("build_index", i, <<dir>>, 0, r.ret, <<>>,
                                        r.encoded, 0)
                    /\ UNCHANGED <<disk, saves, frame>>

Search(i, outcomes) ==
    \E call \in SearchCalls, eo \in outcomes :
        LET r == search(kb[i], call.query, call.top_k, eo)
        IN  /\ last' = Observed("search", i, call.query, call.top_k, r.ret, r.results,
                                r.encoded, ReturnedDim(r.encoded, eo))
            /\ UNCHANGED <<kb, disk, saves, frame>>

\* a save that gives the memory back once the artifacts are written
SaveIndexThenRelease(i, paths, wos, limit) ==
    \E index_path \in paths, wo \in wos :
        LET r == save_index(kb[i], index_path, wo, disk)
        IN  /\ r.disk # disk => saves < limit
            /\ saves' = IF r.disk # disk THEN saves + 1 ELSE saves
            /\ disk' = r.disk
            /\ last' = Observed("save_index", i, index_path, 0,
                                IF r.ret THEN "True" ELSE "False", <<>>, FALSE, 0)
            /\ kb' = [kb EXCEPT ![i] = IF r.ret THEN release(@) ELSE @]
            /\ UNCHANGED frame

SaveIndex(i, paths, wos, limit) ==
    \E index_path \in paths, wo \in wos :
        LET r == save_index(kb[i], index_path, wo, disk)
        IN  /\ r.disk # disk => saves < limit
            /\ saves' = IF r.disk # disk THEN saves + 1 ELSE saves
            /\ disk' = r.disk
            /\ last' = Observed("save_index", i, index_path, 0,
                                IF r.ret THEN "True" ELSE "False", <<>>, FALSE, 0)
            /\ UNCHANGED <<kb, frame>>

LoadIndex(i, paths) ==
    \E index_path \in paths :
        LET r == load_index(kb[i], index_path, disk)
        IN  /\ kb' = [kb EXCEPT ![i] = r.state]
            /\ last' = Observed("load_index", i, index_path, 0,
                                IF r.ret THEN "True" ELSE "False", <<>>, FALSE, 0)
            /\ UNCHANGED <<disk, saves, frame>>

\* The lifecycle of one instance: every public operation in any order, a
\* provider that keeps its dimension, one index path
Next ==
    \/ Release("kb")
    \/ AddDocument("kb", {APdf, BTxt, ShortTxt}, StableOutcomes)
    \/ BuildIndex("kb", Directories, StableOutcomes)
    \/ Search("kb", StableOutcomes)
    \/ SaveIndex("kb", {KbIdx}, WriteOutcomes, MaxSaves)
    \/ LoadIndex("kb", {KbIdx, NoneIdx})

Spec == Init /\ [][Next]_vars

\* Ingestion alone, from a fresh instance, with a provider whose dimension
\* may change from call to call
NextAdd ==
    \/ AddDocument("kb", {APdf, BTxt, ShortTxt}, EmbedOutcomes)
    \/ Search("kb", EmbedOutcomes)

SpecAdd == Init /\ [][NextAdd]_vars

\* The corpus in memory: ingestion, rebuilds, releases and searches in any
\* order, with a provider whose dimension may change from call to call
NextCorpus ==
    \/ AddDocument("kb", {APdf, BTxt, ShortTxt}, EmbedOutcomes)
    \/ BuildIndex("kb", Directories, EmbedOutcomes)
    \/ Release("kb")
    \/ Search("kb", EmbedOutcomes)

SpecCorpus == Init /\ [][NextCorpus]_vars

\* Everything that assigns the index or the dimension: ingestion and rebuilds
\* with a provider whose dimension may change from call to call, release,
\* and the artifacts written and read back
NextDimension ==
    \/ AddDocument("kb", {APdf, BTxt, ShortTxt}, EmbedOutcomes)
    \/ BuildIndex("kb", Directories, EmbedOutcomes)
    \/ Release("kb")
    \/ SaveIndex("kb", {KbIdx}, WriteOutcomes, MaxSaves)
    \/ LoadIndex("kb", {KbIdx, NoneIdx})

SpecDimension == Init /\ [][NextDimension]_vars

\* The round trip of tests/test_knowledge_base.py: kb ingests and saves,
\* new_kb loads and searches
NextRoundTrip ==
    \/ AddDocument("kb", {APdf, BTxt}, {Returns(ModelDim)})
    \/ SaveIndex("kb", {KbIdx, KbBin}, WriteOutcomes, MaxRoundTripSaves)
    \/ Search("kb", {Returns(ModelDim)})
    \/ LoadIndex("kb", {KbIdx})
    \/ LoadIndex("new_kb", IndexPaths)
    \/ Search("new_kb", {Returns(ModelDim)})
    \/ Release("new_kb")

SpecRoundTrip == Init /\ [][NextRoundTrip]_vars

\* add_document statement by statement, for a reader that runs between two of
\* its statements (the code takes no lock).  AddBegin is lines 191-202: the
\* file is loaded and its chunks are embedded; AddStep is the statement at
\* frame.pc, one of lines 204-221.
AddBegin(i, files, outcomes) ==
    /\ frame = Idle
    /\ \E f \in files, eo \in outcomes :
           LET chunks_with_meta == LoadedChunks[f]
               texts == Texts(chunks_with_meta)
               returned(ret, encoded) ==
                   /\ last' = Observed("add_document", i, f, 0, ret, <<>>, encoded, 0)
                   /\ UNCHANGED <<kb, disk, saves, frame>>
           IN  IF chunks_with_meta = <<>> THEN returned("no_chunks", FALSE)
               ELSE IF ~eo.ok THEN returned("raised", TRUE)
               ELSE /\ Len(kb[i].documents) + Len(texts) <= MaxDocs
                    /\ frame' = [op |-> "add_document", inst |-> i, file |-> f, pc |-> 204,
                                 texts |-> texts, meta_list |-> Metas(chunks_with_meta),
                                 embeddings |-> Encode(texts, eo.d), d |-> eo.d]
                    /\ UNCHANGED <<kb, disk, saves, last>>

AddStep ==
    /\ frame # Idle
    /\ frame.op = "add_document"
    /\ LET i == frame.inst
           s == kb[i]
           goto(line) == frame' = [frame EXCEPT !.pc = line]
           returned(ret) ==
               /\ last' = Observed("add_document", i, frame.file, 0, ret, <<>>, TRUE, frame.d)
               /\ frame' = Idle
       IN  CASE frame.pc = 204 ->
                   /\ goto(IF ~s.index.present THEN 206 ELSE 213)
                   /\ UNCHANGED <<kb, last>>
             [] frame.pc = 206 ->
                   /\ kb' = [kb EXCEPT ![i].dimension = frame.d]
                   /\ goto(207) /\ UNCHANGED last
             [] frame.pc = 207 ->
                   /\ kb' = [kb EXCEPT ![i].index = IndexFlatL2(s.dimension)]
                   /\ goto(208) /\ UNCHANGED last
             [] frame.pc = 208 ->
                   /\ kb' = [kb EXCEPT ![i].index = IndexAdd(@, frame.embeddings)]
                   /\ goto(209) /\ UNCHANGED last
             [] frame.pc = 209 ->
                   /\ kb' = [kb EXCEPT ![i].documents = frame.texts]
                   /\ goto(210) /\ UNCHANGED last
             [] frame.pc = 210 ->
                   /\ kb' = [kb EXCEPT ![i].metadata = frame.meta_list]
                   /\ goto(221) /\ UNCHANGED last
             [] frame.pc = 213 ->
                   IF ~DimensionMatches(s, frame.d)
                   THEN returned("dimension_mismatch") /\ UNCHANGED kb
                   ELSE goto(217) /\ UNCHANGED <<kb, last>>
             [] frame.pc = 217 ->
                   IF ~IndexAddOk(s.index, frame.embeddings)
                   THEN returned("raised") /\ UNCHANGED kb
                   ELSE /\ kb' = [kb EXCEPT ![i].index = IndexAdd(@, frame.embeddings)]
                        /\ goto(218) /\ UNCHANGED last
             [] frame.pc = 218 ->
                   /\ kb' = [kb EXCEPT ![i].documents = @ \o frame.texts]
                   /\ goto(219) /\ UNCHANGED last
             [] frame.pc = 219 ->
                   /\ kb' = [kb EXCEPT ![i].metadata = @ \o frame.meta_list]
                   /\ goto(221) /\ UNCHANGED last
             [] frame.pc = 221 ->
                   returned("added") /\ UNCHANGED kb
    /\ UNCHANGED <<disk, saves>>

\* One writer that ingests and one reader that searches, with no lock between
\* them: a search may run between any two statements of add_document
NextInterleaved ==
    \/ AddBegin("kb", {APdf, BTxt, ShortTxt}, {Returns(ModelDim)})
    \/ AddStep
    \/ Search("kb", {Returns(ModelDim)})

SpecInterleaved == Init /\ [][NextInterleaved]_vars

\* The loader and the chunker alone, as functions of their input: the texts
\* the chunker is called with are lead spaces, a body of n letters with at
\* most one sentence-boundary character, and trail spaces, some behind a word
\* the sanitizer redacts
Body(n, b) == [i \in 1..n |-> IF i = b THEN "." ELSE "a"]
BodyLengths == {0, 20, 21, 50, 71, 512, 513, 550, 562, 563, 965, 1000}
BoundaryAt == {0, 300, 513, 530, 975}
Spaces == {0, 1, 35}
Redacted == <<"S", "c", "A", "m", " ">>
ChunkTexts ==
    LET bodies == UNION { { Body(n, b) : b \in { c \in BoundaryAt : c <= n } } :
                              n \in BodyLengths }
        plain == { Rep(" ", lead) \o body \o Rep(" ", trail) :
                       lead \in Spaces \ {35}, trail \in Spaces \ {1}, body \in bodies }
    IN  plain \cup { Redacted \o Body(n, 0) : n \in BodyLengths }

\* every text's chunks, computed once: _chunk_text is a function of its
\* arguments alone
Chunked == [text \in ChunkTexts |-> _chunk_text(text, APdf, 0)]

ChunkText(texts) ==
    \E text \in texts :
        /\ last' = Observed("_chunk_text", "kb", text, 0, "ok", Chunked[text], FALSE, 0)
        /\ UNCHANGED <<kb, disk, saves, frame>>

LoadDocument(files) ==
    \E f \in files :
        LET r == load_document(f)
        IN  /\ last' = Observed("load_document", "kb", f, 0, r.handler, r.chunks, FALSE, 0)
            /\ UNCHANGED <<kb, disk, saves, frame>>

NextIngest ==
    \/ ChunkText(ChunkTexts)
    \/ LoadDocument(DocFiles)

SpecIngest == Init /\ [][NextIngest]_vars

(***************************************************************************)
(* Injection detection: preprocessing.detect_injection and the calculator  *)
(* whitelist it consults, calculator.Calculator.is_calculation_request.    *)
(* Texts are ASCII; the keywords and patterns written in CJK characters    *)
(* never occur in an ASCII text and are left out of the lists.             *)
(***************************************************************************)
\* str.lower, str.startswith, str.count
lower(text) == [i \in 1..Len(text) |-> Lower(text[i])]
StartsWith(text, prefix) ==
    Len(prefix) <= Len(text) /\ SubSeq(text, 1, Len(prefix)) = prefix
Count(text, c) == Cardinality({ i \in 1..Len(text) : text[i] = c })

\* the character classes of the regular expressions: \d, \s, [a-z] under
\* re.IGNORECASE, [0-9a-f]
Digits == {"0", "1", "2", "3", "4", "5", "6", "7", "8", "9"}
IsLetter(c) == \E k \in 1..Len(LowerLetters) : LowerLetters[k] = Lower(c)
HexDigits == Digits \cup {"a", "b", "c", "d", "e", "f"}

\* \s* from position i: the first position at or after i that holds no
\* whitespace (Len(text) + 1 when there is none)
AfterSpaces(text, i) ==
    LET stops == { j \in i..(Len(text) + 1) : j = Len(text) + 1 \/ text[j] \notin Whitespace }
    IN  CHOOSE j \in stops : \A k \in stops : j <= k

\* r"\d+\s*[-+*/%^]\s*\d+"
BinaryOperation(text) ==
    \E i \in 1..Len(text) :
        /\ text[i] \in Digits
        /\ LET j == AfterSpaces(text, i + 1)
           IN  /\ j <= Len(text)
               /\ text[j] \in {"-", "+", "*", "/", "%", "^"}
               /\ LET k == AfterSpaces(text, j + 1)
                  IN  k <= Len(text) /\ text[k] \in Digits

\* r"^[-+*/%^]\s*\d+"
LeadingOperator(text) ==
    /\ text # <<>>
    /\ text[1] \in {"-", "+", "*", "/", "%", "^"}
    /\ LET k == AfterSpaces(text, 2)
       IN  k <= Len(text) /\ text[k] \in Digits

\* r"sqrt\(.+\)", r"sin\(.+\)", r"log\(.+\)" under re.IGNORECASE: the name and
\* "(", at least one character, and a ")" on the same line
FunctionCall(text, name) ==
    \E i \in 1..Len(text) :
        /\ i + Len(name) <= Len(text)
        /\ \A j \in 1..Len(name) : Lower(text[i + j - 1]) = name[j]
        /\ text[i + Len(name)] = "("
        /\ \E close \in (i + Len(name) + 2)..Len(text) :
               /\ text[close] = ")"
               /\ \A j \in (i + Len(name) + 1)..(close - 1) : text[j] # "\n"

\* r"\d+\s*=\s*\?"
EqualsQuestion(text) ==
    \E i \in 1..Len(text) :
        /\ text[i] \in Digits
        /\ LET j == AfterSpaces(text, i + 1)
           IN  /\ j <= Len(text)
               /\ text[j] = "="
               /\ LET k == AfterSpaces(text, j + 1)
                  IN  k <= Len(text) /\ text[k] = "?"

\* r"[\d.]+[+\-*/^][\d.]+"
CompactOperation(text) ==
    \E i \in 1..(Len(text) - 2) :
        /\ text[i] \in Digits \cup {"."}
        /\ text[i + 1] \in {"+", "-", "*", "/", "^"}
        /\ text[i + 2] \in Digits \cup {"."}

\* r"^[\d()+\-*/^.a-z]+$" under re.IGNORECASE; $ also matches before one
\* newline that ends the text
OnlyExpressionCharacters(text) ==
    LET n == IF text # <<>> /\ text[Len(text)] = "\n" THEN Len(text) - 1 ELSE Len(text)
    IN  /\ n >= 1
        /\ \A i \in 1..n :
               \/ text[i] \in Digits
               \/ text[i] \in {"(", ")", "+", "-", "*", "/", "^", "."}
               \/ IsLetter(text[i])

calculation_keywords ==
    { <<"=", "?">>,
      <<"c", "a", "l", "c", "u", "l", "a", "t", "e">>,
      <<"c", "o", "m", "p", "u", "t", "e">>,
      <<"w", "h", "a", "t", " ", "i", "s">> }

\* the list math_patterns, searched in the text as given
math_patterns(text) ==
    \/ BinaryOperation(text)
    \/ LeadingOperator(text)
    \/ FunctionCall(text, <<"s", "q", "r", "t">>)
    \/ FunctionCall(text, <<"s", "i", "n">>)
    \/ FunctionCall(text, <<"l", "o", "g">>)
    \/ EqualsQuestion(text)
    \/ CompactOperation(text)
    \/ OnlyExpressionCharacters(text)

\* Calculator.is_calculation_request (calculator.py lines 61-92)
is_calculation_request(text) ==
    IF text = <<>> THEN FALSE
    ELSE IF \E keyword \in calculation_keywords : Contains(lower(text), keyword) THEN TRUE
    ELSE math_patterns(text)

allowed_prefixes == { <<"c", "a", "l", "c", ":">>, <<"m", "a", "p", ":">>, <<"k", "b", ":">> }

\* the list as written in the source: "as an AI" keeps its capitals
injection_patterns ==
    { <<"p", "r", "e", "v", "i", "o", "u", "s", " ", "i", "n", "s", "t", "r", "u", "c", "t", "i", "o", "n", "s">>,
      <<"a", "s", " ", "a", "n", " ", "A", "I">>,
      <<"s", "y", "s", "t", "e", "m", " ", "p", "r", "o", "m", "p", "t">>,
      <<"r", "o", "l", "e", " ", "p", "l", "a", "y">>,
      <<"f", "o", "r", "g", "e", "t", " ", "i", "n", "s", "t", "r", "u", "c", "t", "i", "o", "n", "s">>,
      <<"b", "y", "p", "a", "s", "s", " ", "r", "e", "s", "t", "r", "i", "c", "t", "i", "o", "n", "s">>,
      <<"p", "l", "a", "y", " ", "a", " ", "r", "o", "l", "e">> }

\* r"\\x[0-9a-f]{2}"
HexEscape(text) ==
    \E i \in 1..(Len(text) - 3) :
        /\ text[i] = "\\" /\ text[i + 1] = "x"
        /\ text[i + 2] \in HexDigits /\ text[i + 3] \in HexDigits

\* line 140: a pattern of the list occurs in the lower-cased text
MatchesPattern(text_lower) ==
    \E pattern \in injection_patterns : Contains(text_lower, pattern)

\* detect_injection (preprocessing.py lines 116-151)
detect_injection(text) ==
    IF text = <<>> THEN FALSE
    ELSE IF \E prefix \in allowed_prefixes : StartsWith(text, prefix) THEN FALSE
    ELSE IF is_calculation_request(text) THEN FALSE
    ELSE IF MatchesPattern(lower(text)) THEN TRUE
    ELSE IF HexEscape(lower(text)) THEN TRUE
    ELSE IF Count(lower(text), "(") > 3 /\ Count(lower(text), ")") > 3 THEN TRUE
    ELSE FALSE

\* the texts detect_injection is called with: the empty text, each segment,
\* and each segment followed by another
Segments ==
    { <<"c", "a", "l", "c", ":">>,
      <<"k", "b", ":">>,
      <<"m", "a", "p", ":">>,
      <<"a", "s", " ", "a", "n", " ", "A", "I">>,
      <<"A", "s", " ", "a", "n", " ", "A", "I", ",", " ">>,
      <<"s", "y", "s", "t", "e", "m", " ", "p", "r", "o", "m", "p", "t">>,
      <<"w", "h", "a", "t", " ", "i", "s", " ", "t", "h", "e", " ">>,
      <<"F", "o", "r", "g", "e", "t", " ", "p", "r", "e", "v", "i", "o", "u", "s", " ", "i", "n", "s", "t", "r", "u", "c", "t", "i", "o", "n", "s">>,
      <<"b", "y", "p", "a", "s", "s", " ", "r", "e", "s", "t", "r", "i", "c", "t", "i", "o", "n", "s">>,
      <<"2", " ", "+", " ", "2">>,
      <<" ">>,
      <<"h", "e", "l", "l", "o", " ">>,
      <<"\\", "x", "4", "e">>,
      <<"(", "(", "(", "(">>,
      <<")", ")", ")", ")">>,
      <<"r", "o", "l", "e", " ", "p", "l", "a", "y">>,
      <<"s", "q", "r", "t", "(">>,
      <<"2", " ", "=", " ", "?">>,
      <<"-", "3">>,
      <<"1", ".", "5", "*", "2">> }
DetectTexts == {<<>>} \cup Segments \cup { a \o b : a \in Segments, b \in Segments }

\* every text's verdict, computed once: detect_injection is a function of
\* the text alone
Detected == [text \in DetectTexts |-> detect_injection(text)]

DetectInjection(texts) ==
    \E text \in texts :
        /\ last' = Observed("detect_injection", "kb", text, 0,
                            IF Detected[text] THEN "True" ELSE "False", <<>>, FALSE, 0)
        /\ UNCHANGED <<kb, disk, saves, frame>>

NextInjection == DetectInjection(DetectTexts)

SpecInjection == Init /\ [][NextInjection]_vars

(***************************************************************************)
(* _chunk_text statement by statement (lines 123-167): the sanitizer call  *)
(* of lines 128-133 either returns the filtered text or raises, and each   *)
(* pass of the while loop of lines 140-165 is one step.  frame holds the   *)
(* argument (raw), the text the loop walks (text), the loop's start and    *)
(* end, the window's start before line 165 moved it (from), and the list   *)
(* of chunks.                                                              *)
(***************************************************************************)
\* the ideographs the texts are written with: those of the sensitive words
Ideographs ==
    { c \in UNION { { w[k] : k \in 1..Len(w) } : w \in SENSITIVE_WORDS } :
          ~IsLetter(c) /\ c \notin {" ", "-"} }

\* \w of the fallback pattern: letters, digits, the underscore, ideographs
IsWord(c) == IsLetter(c) \/ c \in Digits \/ c = "_" \/ c \in Ideographs

\* line 132: the six words of the fallback pattern
FallbackWords ==
    { <<"U66B4", "U529B">>, <<"U8272", "U60C5">>, <<"U6BD2", "U54C1">>,
      <<"U8D4C", "U535A">>, <<"U8BC8", "U9A97">>,
      <<"U6050", "U6016", "U4E3B", "U4E49">> }

\* the length of the word of the pattern that stands at position i between two
\* word boundaries (\b...\b), 0 when there is none
FallbackMatch(text, i) ==
    LET hits == { Len(w) : w \in { w \in FallbackWords :
                      /\ i + Len(w) - 1 <= Len(text)
                      /\ \A j \in 1..Len(w) : text[i + j - 1] = w[j]
                      /\ (i = 1 \/ ~IsWord(text[i - 1]))
                      /\ (i + Len(w) - 1 = Len(text) \/ ~IsWord(text[i + Len(w)])) } }
    IN  IF hits = {} THEN 0 ELSE CHOOSE n \in hits : \A m \in hits : m <= n

\* line 132: re.sub of the fallback pattern by "***"
RECURSIVE FallbackFrom(_, _)
FallbackFrom(text, i) ==
    LET starts == { j \in i..Len(text) : FallbackMatch(text, j) > 0 }
    IN  IF starts = {} THEN SubSeq(text, i, Len(text))
        ELSE LET j == CHOOSE m \in starts : \A o \in starts : m <= o
             IN  SubSeq(text, i, j - 1) \o <<"*", "*", "*">>
                     \o FallbackFrom(text, j + FallbackMatch(text, j))

\* what the sanitizer call of line 130 does: it returns, or it raises
SanitizerOutcomes == {"filtered", "raised"}

\* the try of lines 128-133 with an except that lets the exception go
SanitizeNoFallback(text, so) ==
    IF so = "filtered" THEN [ok |-> TRUE, text |-> filter_text(text)]
    ELSE [ok |-> FALSE, text |-> text]

\* lines 128-133: the sanitizer's text, or on its exception the text with the
\* fallback pattern replaced
Sanitize(text, so) ==
    IF so = "filtered" THEN [ok |-> TRUE, text |-> filter_text(text)]
    ELSE [ok |-> TRUE, text |-> FallbackFrom(text, 1)]

\* texts with characters outside ASCII: a word of both lists standing alone and
\* inside a run of word characters, a word of the sanitizer's list only, a long
\* text whose first boundary character is the last of the look-ahead stretch
\* once the word in front is replaced, and a full-width full stop in the
\* look-ahead stretch
CjkTexts ==
    { <<"U66B4", "U529B", " ">> \o Body(21, 0),
      <<"U66B4", "U529B">> \o Body(21, 0),
      <<"U81EA", "U6740", " ">> \o Body(21, 0),
      <<"U8BC8", "U9A97", " ">> \o Body(1000, 558),
      [i \in 1..700 |-> IF i = 530 THEN "U3002" ELSE "a"] }

LoopTexts == ChunkTexts \cup CjkTexts

\* every text's sanitizer call, computed once
Sanitized == [text \in LoopTexts |-> [so \in SanitizerOutcomes |-> Sanitize(text, so)]]

\* lines 124-137: the blank test, the sanitizer call, the loop's variables
ChunkBegin(texts) ==
    /\ frame = Idle
    /\ \E text \in texts, so \in SanitizerOutcomes :
           LET blank == Strip(text) = <<>>
               r == Sanitized[text][so]
           IN  frame' = [op |-> "_chunk_text", raw |-> text, so |-> so,
                         text |-> IF blank \/ ~r.ok THEN text ELSE r.text,
                         start |-> 0, from |-> 0, end |-> 0, chunks |-> <<>>,
                         ret |-> IF blank \/ r.ok THEN "ok" ELSE "raised",
                         pc |-> IF blank \/ ~r.ok THEN "returned" ELSE "loop"]
    /\ UNCHANGED <<kb, disk, saves, last>>

\* lines 140-165: one pass of the loop
ChunkIterate ==
    /\ frame # Idle /\ frame.op = "_chunk_text" /\ frame.pc = "loop"
    /\ frame.start < Len(frame.text)
    /\ LET end == WindowEnd(frame.text, frame.start)
           chunk == Slice(frame.text, frame.start, end)
           emitted == IF KeepsChunk(chunk)
                      THEN << [text |-> chunk,
                               meta |-> [source |-> APdf, page |-> 0,
                                         start |-> frame.start, end |-> end]] >>
                      ELSE <<>>
       IN  frame' = [frame EXCEPT !.end = end, !.from = frame.start,
                                  !.chunks = @ \o emitted,
                                  !.start = NextStart(frame.start, end)]
    /\ UNCHANGED <<kb, disk, saves, last>>

\* lines 140 and 167: the loop's test fails and the list is returned
ChunkReturn ==
    /\ frame # Idle /\ frame.op = "_chunk_text" /\ frame.pc = "loop"
    /\ ~(frame.start < Len(frame.text))
    /\ frame' = [frame EXCEPT !.pc = "returned"]
    /\ UNCHANGED <<kb, disk, saves, last>>

NextChunker ==
    \/ ChunkBegin(LoopTexts)
    \/ ChunkIterate
    \/ ChunkReturn

SpecChunker == Init /\ [][NextChunker]_vars

(***************************************************************************)
(* Properties                                                              *)
(***************************************************************************)
\* the corpus and the index of s are aligned in length
Aligned(s) ==
    /\ Len(s.documents) = Len(s.metadata)
    /\ Len(s.documents) = VectorCount(s)

\* s holds an index and a corpus
Populated(s) == s.index.present /\ s.documents # <<>>

\* C1: after every public operation, in any order and with any outcome, the
\* number of texts, the number of metadata records and the number of vectors
\* in the index (0 without an index) are equal.
C1_CountsAgreeAfterEveryOperation ==
    \A i \in Instances : Aligned(kb[i])

\* C2: from a fresh instance, after each add_document call (chunks added, no
\* chunks found, or skipped for a dimension mismatch) the three counts are
\* equal.
C2_CountsAgreeAfterAddDocument ==
    /\ Len(kb["kb"].documents) = VectorCount(kb["kb"])
    /\ Len(kb["kb"].metadata) = VectorCount(kb["kb"])

\* an add_document that was skipped for a dimension mismatch, on a corpus that
\* an earlier add_document had grown to two chunks
C2_Witness ==
    /\ last.op = "add_document"
    /\ last.ret = "dimension_mismatch"
    /\ VectorCount(kb["kb"]) = 2
    /\ Len(kb["kb"].documents) = 2

\* C3: whenever load_index returns False, the index, texts, metadata and
\* dimension are what they were before the call.
C3_FailedLoadChangesNothing ==
    [][(last'.op = "load_index" /\ last'.ret = "False") => kb' = kb]_vars

\* C4: a successful save_index(path) followed by load_index(path) on a fresh
\* instance returns True and gives it the same texts, metadata (in the same
\* order) and vectors, so every search gives the same results on both.
C4_SaveThenLoadReproducesCorpus ==
    [][(/\ last.op = "save_index" /\ last.ret = "True"
        /\ last'.op = "load_index" /\ last'.inst # last.inst
        /\ last'.arg = last.arg
        /\ kb[last'.inst] = FreshKB)
       => (/\ last'.ret = "True"
           /\ kb'[last'.inst].documents = kb[last.inst].documents
           /\ kb'[last'.inst].metadata = kb[last.inst].metadata
           /\ kb'[last'.inst].index = kb[last.inst].index
           /\ \A call \in SearchCalls, eo \in EmbedOutcomes :
                  search(kb'[last'.inst], call.query, call.top_k, eo)
                      = search(kb[last.inst], call.query, call.top_k, eo))]_vars

\* new_kb has just loaded the two-chunk corpus that kb saved
C4_Witness ==
    /\ last.op = "load_index" /\ last.inst = "new_kb" /\ last.ret = "True"
    /\ saves = 1
    /\ disk[last.arg] = FaissFile(kb["kb"].index)
    /\ Len(kb["kb"].documents) = 2
    /\ kb["new_kb"] = kb["kb"]

\* C5: the artifacts are named by appending a suffix to the path, so a
\* save_index(p2) leaves the three artifacts that an earlier save_index(p1),
\* p1 # p2, wrote unchanged (stated for a save_index(p2) that succeeds).
C5_SaveLeavesOtherPathsArtifacts ==
    [][\A p1 \in IndexPaths :
          (/\ last'.op = "save_index" /\ last'.ret = "True" /\ last'.arg # p1
           /\ disk[p1].kind = "faiss"
           /\ disk[DocPath(p1)].kind = "npy"
           /\ disk[MetaPath(p1)].kind = "npy")
          => (/\ disk'[p1] = disk[p1]
              /\ disk'[DocPath(p1)] = disk[DocPath(p1)]
              /\ disk'[MetaPath(p1)] = disk[MetaPath(p1)])]_vars

\* the instance the last operation was called on
Target == kb[last.inst]

\* C6: on a populated knowledge base, a search with a query that has neither
\* ".." nor "/" and with top_k >= 1 returns exactly min(top_k, corpus size)
\* results.
C6_SearchReturnsMinOfTopKAndCorpus ==
    (/\ last.op = "search" /\ last.ret = "ok"
     /\ last.arg \in {BenignQuery, SpacedDotsQuery}
     /\ last.top_k >= 1
     /\ Populated(Target))
    => Len(last.results) = Min(last.top_k, Len(Target.documents))

\* C7 as stated: every result's score is greater than the score of the result
\* after it.
C7_StrictlyDescending ==
    last.op = "search" =>
        \A n \in 1..(Len(last.results) - 1) :
            ScoreGreater(last.results[n].score, last.results[n + 1].score)

\* C7 as amended: no result's score is less than the score of the result after
\* it (equal scores occur), and the results are, in this order, the texts and
\* metadata of the ids the index returned, nearest first.
C7_DescendingInIndexOrder ==
    (last.op = "search" /\ last.results # <<>>) =>
        /\ \A n \in 1..(Len(last.results) - 1) :
               ~ScoreGreater(last.results[n + 1].score, last.results[n].score)
        /\ last.results =
               SearchHits(Target, FaissSearch(Target.index, Embed(last.arg, last.dim),
                                              Min(last.top_k, Len(Target.documents))))

\* a search whose first two results are the same chunk, ingested twice, with
\* equal scores
C7_Witness ==
    /\ last.op = "search"
    /\ Len(last.results) >= 2
    /\ last.results[1].meta = last.results[2].meta
    /\ ScoreEqual(last.results[1].score, last.results[2].score)

\* C8: a search with a query that contains ".." or "/" returns an empty
\* result, and the embedding provider is not called.
C8_PathLikeQueryRejected ==
    (last.op = "search" /\ last.arg \in {DotsQuery, SlashQuery}) =>
        /\ last.ret = "ok"
        /\ last.results = <<>>
        /\ ~last.encoded

\* a query with "/" was searched on a populated knowledge base
C8_Witness ==
    /\ last.op = "search" /\ last.arg = SlashQuery /\ last.top_k >= 1
    /\ Populated(Target) /\ Aligned(Target)

\* s is Empty: no index and an empty corpus
Empty(s) == ~s.index.present /\ s.documents = <<>> /\ s.metadata = <<>>

\* C9: a search on an Empty knowledge base returns an empty result and does
\* not raise, for every query and top_k.
C9_SearchOnEmptyReturnsNothing ==
    (last.op = "search" /\ Empty(Target)) =>
        last.ret = "ok" /\ last.results = <<>>

\* a benign query searched on a knowledge base that build_index left Empty:
\* only build_index keeps the dimension of the corpus it dropped
C9_Witness ==
    /\ last.op = "search" /\ last.arg = BenignQuery /\ last.top_k >= 1
    /\ Empty(Target) /\ Target.dimension # 0

\* C10: an add_document on a populated knowledge base whose embeddings have
\* another dimension than the established one returns without raising and
\* leaves index, texts, metadata and dimension unchanged, so every search
\* returns what it returned before.
C10_DimensionMismatchChangesNothing ==
    [][(/\ last'.op = "add_document"
        /\ Populated(kb[last'.inst])
        /\ last'.dim # 0 /\ last'.dim # kb[last'.inst].dimension)
       => (/\ last'.ret # "raised"
           /\ kb' = kb
           /\ \A call \in SearchCalls, eo \in EmbedOutcomes :
                  search(kb'[last'.inst], call.query, call.top_k, eo)
                      = search(kb[last'.inst], call.query, call.top_k, eo))]_vars

\* an add_document was skipped for its dimension on a populated knowledge base
C10_Witness ==
    /\ last.op = "add_document" /\ last.ret = "dimension_mismatch"
    /\ Populated(Target)
    /\ last.dim # Target.dimension

\* C11: add_document is not idempotent: each of two calls on a file of n >= 1
\* chunks grows the corpus and the vector count by n (2n together), and the
\* second call appends the same n texts and metadata after the first n.
C11_AddingTwiceGrowsByTwoN ==
    [][(last'.op = "add_document" /\ last'.ret = "added") =>
          LET i == last'.inst
              chunks == LoadedChunks[last'.arg]
              n == Len(chunks)
          IN  /\ Len(kb'[i].documents) = Len(kb[i].documents) + n
              /\ Len(kb'[i].metadata) = Len(kb[i].metadata) + n
              /\ VectorCount(kb'[i]) = VectorCount(kb[i]) + n
              /\ (/\ last.op = "add_document" /\ last.ret = "added"
                  /\ last.inst = i /\ last.arg = last'.arg)
                 => (/\ kb'[i].documents = kb[i].documents \o Texts(chunks)
                     /\ kb'[i].metadata = kb[i].metadata \o Metas(chunks)
                     /\ SubSeq(kb[i].documents, Len(kb[i].documents) - n + 1,
                               Len(kb[i].documents)) = Texts(chunks))]_vars

\* the regular files located directly in dir
FilesOf(dir) == { e.path : e \in { e \in ListDir(dir) : e.is_file } }

\* the corpus of s holds only chunks of files located directly in dir, each
\* file's chunks at most once, with as many vectors as chunks
HoldsOnlyFilesOf(s, dir) ==
    /\ \A m \in 1..Len(s.metadata) : s.metadata[m].source \in FilesOf(dir)
    /\ \A f \in FilesOf(dir) :
           Cardinality({ m \in 1..Len(s.metadata) : s.metadata[m].source = f })
               \in {0, Len(LoadedChunks[f])}
    /\ Aligned(s)

\* C12 as stated: after every call of build_index(directory) that returns, no
\* chunk or vector of the corpus before the call is left, and the corpus holds
\* only chunks of files located directly in directory.
C12_EveryBuildIndexResets ==
    (last.op = "build_index" /\ last.ret # "raised") =>
        HoldsOnlyFilesOf(Target, last.arg[1])

\* C12 as amended: the same for every call whose argument is a directory; a
\* call whose argument is not a directory changes nothing.
C12_BuildIndexOnDirectoryResets ==
    [][last'.op = "build_index" =>
          /\ last'.ret = "done" => HoldsOnlyFilesOf(kb'[last'.inst], last'.arg[1])
          /\ last'.ret = "not_a_directory" => kb' = kb]_vars

\* build_index on a directory whose files give no chunk has dropped a corpus:
\* the dimension of the dropped corpus is still set
C12_Witness ==
    /\ last.op = "build_index" /\ last.ret = "done" /\ last.arg = <<DraftsDir>>
    /\ Empty(Target)
    /\ Target.dimension # 0

\* C13: a build_index that returns leaves the knowledge base Ready (an index,
\* a corpus, a dimension) if a chunk was added, and otherwise Empty: no index,
\* no texts, no metadata and the dimension unset, whatever the state before.
C13_BuildIndexEndsReadyOrEmpty ==
    (last.op = "build_index" /\ last.ret = "done") =>
        IF Target.documents # <<>>
        THEN Populated(Target) /\ Target.dimension # 0
        ELSE Target = FreshKB

\* C14: release leaves the knowledge base Empty (no index, no texts, no
\* metadata, dimension unset) from every state, and a search right after it
\* returns an empty result.
C14_ReleaseLeavesEmpty ==
    [][/\ last'.op = "release" => kb'[last'.inst] = FreshKB
       /\ (last.op = "release" /\ last'.op = "search" /\ last'.inst = last.inst)
          => (last'.ret = "ok" /\ last'.results = <<>>)]_vars

\* release has emptied a knowledge base whose index had been saved
C14_Witness ==
    /\ last.op = "release"
    /\ Target = FreshKB
    /\ disk[KbIdx].kind = "faiss"
    /\ disk[KbIdx].items # <<>>

\* C15: no per-file failure aborts a batch build: neither add_document nor
\* build_index raises, and when build_index returns the chunks of every file
\* of the directory that yields chunks are in the corpus.
C15_NoPerFileFailureAbortsBuild ==
    /\ last.op \in {"add_document", "build_index"} => last.ret # "raised"
    /\ (last.op = "build_index" /\ last.ret = "done") =>
           \A f \in FilesOf(last.arg[1]) :
               \A c \in 1..Len(LoadedChunks[f]) :
                   \E m \in 1..Len(Target.metadata) :
                       /\ Target.metadata[m] = LoadedChunks[f][c].meta
                       /\ Target.documents[m] = LoadedChunks[f][c].text

\* C16: search never raises to its caller, in any reachable state and with
\* any outcome of the embedding provider.
C16_SearchNeverRaises ==
    last.op = "search" => last.ret = "ok"

\* the (start, end) offsets of the chunks a call returned
Offsets(chunks) == [c \in 1..Len(chunks) |-> <<chunks[c].meta.start, chunks[c].meta.end>>]

\* text is ASCII without a sentence-boundary character, and the sanitizer
\* leaves it unchanged
PlainText(text) ==
    /\ \A c \in 1..Len(text) : text[c] \notin boundary_chars
    /\ filter_text(text) = text

\* C17: chunking a 1000-character ASCII text with no sentence-boundary
\* character that the sanitizer leaves unchanged yields exactly three chunks,
\* with offsets [0,512), [462,974) and [924,1000), in this order.
C17_ThousandCharactersGiveThreeChunks ==
    (last.op = "_chunk_text" /\ Len(last.arg) = 1000 /\ PlainText(last.arg)) =>
        Offsets(last.results) = << <<0, 512>>, <<462, 974>>, <<924, 1000>> >>

C19_LoadDocumentSkips ==
    last.op = "load_document" =>
        LET f == last.arg
            supported == Ext(f) \in {"pdf", "txt", "docx"}
        IN  /\ (~FileExists(f) \/ ~supported \/ FileSize(f) > 50 * 1024 * 1024)
               => (last.ret = "skipped" /\ last.results = <<>>)
            /\ (FileExists(f) /\ supported /\ FileSize(f) = 50 * 1024 * 1024)
               => (last.ret = Ext(f) /\ last.results = HandleFile(f))

\* the PDF of exactly 50 MB, named .PDF, was chunked
C19_Witness ==
    /\ last.op = "load_document" /\ last.arg = EdgePdf
    /\ FileSize(last.arg) = 50 * 1024 * 1024
    /\ last.ret = "pdf"
    /\ last.results # <<>>

\* C20: for a non-empty text that does not start with calc:, map: or kb:,
\* detect_injection returns True whenever the text contains, in any case, one
\* of the listed injection phrases, whatever else the text contains.
C20_ListedPhraseIsDetected ==
    (/\ last.op = "detect_injection"
     /\ last.arg # <<>>
     /\ ~\E prefix \in allowed_prefixes : StartsWith(last.arg, prefix)
     /\ \E pattern \in injection_patterns : Contains(lower(last.arg), lower(pattern)))
    => last.ret = "True"

\* C22: when the embedding call inside add_document fails, nothing of that
\* document is appended: index, texts, metadata and dimension are what they
\* were before the call.
C22_FailedEmbeddingAppendsNothing ==
    [][(last'.op = "add_document" /\ last'.ret = "raised") => kb' = kb]_vars

\* the embedding call of an add_document failed on a populated knowledge base
C22_Witness ==
    /\ last.op = "add_document" /\ last.ret = "raised" /\ last.encoded
    /\ Populated(Target)

\* C29: search and save_index are read-only on the in-memory state: index,
\* texts, metadata and dimension after the call equal those before it, for
\* every query, top_k, path and outcome.
C29_SearchAndSaveReadOnly ==
    [][last'.op \in {"search", "save_index"} => kb' = kb]_vars

\* a save_index has written the artifacts of a populated knowledge base, which
\* still holds what it saved
C29_Witness ==
    /\ last.op = "save_index" /\ last.ret = "True"
    /\ Populated(Target)
    /\ disk[last.arg] = FaissFile(Target.index)
    /\ disk[DocPath(last.arg)] = NpyFile(Target.documents)

\* C21: the index mutation and the appends to texts and metadata inside
\* add_document are atomic for readers: a search that runs between two
\* statements of an add_document never finds more vectors in the index than
\* there are texts or metadata records, and never fails on an id that has no
\* text or no metadata.
C21_AddDocumentAtomicForReaders ==
    /\ VectorCount(kb["kb"]) <= Len(kb["kb"].documents)
    /\ VectorCount(kb["kb"]) <= Len(kb["kb"].metadata)
    /\ last.op = "search" => last.ret = "ok"


\* a pass of the loop of _chunk_text
Iteration ==
    /\ frame # Idle /\ frame.op = "_chunk_text" /\ frame.pc = "loop"
    /\ frame' # frame /\ frame'.pc = "loop"

\* a call of _chunk_text that has returned
ChunkerReturned == frame # Idle /\ frame.op = "_chunk_text" /\ frame.pc = "returned"

\* C23: every pass of the chunking loop leaves the next start strictly greater
\* than the current one -- end - 50 when that exceeds the start, the end
\* otherwise -- and never beyond the length of the text, so the start reaches
\* the length and the loop ends.
C23_EveryIterationAdvances ==
    [][Iteration =>
          /\ frame'.start > frame.start
          /\ frame'.start <= Len(frame.text)
          /\ frame'.start = IF frame'.end - 50 > frame.start
                            THEN frame'.end - 50 ELSE frame'.end]_vars

\* a pass over a window of at most 50 characters: the next start is the end
C23_Witness ==
    /\ frame # Idle /\ frame.op = "_chunk_text"
    /\ frame.end > 0 /\ frame.end - 50 <= frame.from
    /\ frame.start = frame.end

\* C30: every chunk returned has 0 <= start < end <= length of the sanitized
\* text, its text is exactly the characters [start, end) of that text, it spans
\* at most 562 characters, and the starts strictly increase along the list.
C30_ChunksWellFormed ==
    ChunkerReturned =>
        /\ \A k \in 1..Len(frame.chunks) :
               LET c == frame.chunks[k]
               IN  /\ 0 <= c.meta.start /\ c.meta.start < c.meta.end
                   /\ c.meta.end <= Len(frame.text)
                   /\ c.text = [i \in 1..(c.meta.end - c.meta.start) |->
                                    frame.text[c.meta.start + i]]
                   /\ c.meta.end - c.meta.start <= 562
        /\ \A k \in 1..(Len(frame.chunks) - 1) :
               frame.chunks[k].meta.start < frame.chunks[k + 1].meta.start

\* three chunks or more of a text the sanitizer changed, one of them of 562
\* characters
C30_Witness ==
    /\ ChunkerReturned
    /\ Len(frame.chunks) >= 3
    /\ frame.text # frame.raw
    /\ \E k \in 1..Len(frame.chunks) :
           frame.chunks[k].meta.end - frame.chunks[k].meta.start = 562

\* C24: for every window whose candidate end start + 512 lies before the end
\* of the text, the window ends just past the first boundary character among
\* the next 50 characters from the candidate end on, and at the candidate end
\* when there is none.
C24_WindowEndsPastFirstBoundary ==
    [][Iteration /\ frame.start + 512 < Len(frame.text) =>
          LET candidate == frame.start + 512
              upto == IF candidate + 50 < Len(frame.text)
                      THEN candidate + 50 ELSE Len(frame.text)
              stretch == { p \in (candidate + 1)..upto :
                               frame.text[p] \in {".", "U3002", ";", "UFF1B", "!",
                                                  "UFF01", "?", "UFF1F", "\n"} }
          IN  IF stretch # {}
              THEN frame'.end = CHOOSE p \in stretch : \A q \in stretch : p <= q
              ELSE frame'.end = candidate]_vars

\* a window that was extended to a full-width full stop
C24_Witness ==
    /\ frame # Idle /\ frame.op = "_chunk_text"
    /\ frame.end > frame.from + 512
    /\ frame.text[frame.end] = "U3002"

\* C26: when the sanitizer raises, _chunk_text returns normally, and what it
\* returns are the chunks of the text with the words of the fixed list
\* replaced.
C26_SanitizerFailureFallsBack ==
    ChunkerReturned /\ frame.so = "raised" =>
        /\ frame.ret = "ok"
        /\ frame.chunks = IF Strip(frame.raw) = <<>> THEN <<>>
                          ELSE ChunkLoop(FallbackFrom(frame.raw, 1), APdf, 0, 0)

\* the sanitizer raised on a text with a word of the fixed list, which the
\* chunk returned shows replaced
C26_Witness ==
    /\ ChunkerReturned /\ frame.so = "raised"
    /\ frame.text # frame.raw
    /\ Len(frame.chunks) >= 1
    /\ SubSeq(frame.chunks[1].text, 1, 3) = <<"*", "*", "*">>

\* C25: the start and end of every chunk are offsets into the text handed to
\* the chunker, and the chunk's text is the sanitized form of that span.
C25_OffsetsIntoExtractedText ==
    ChunkerReturned /\ frame.so = "filtered" =>
        \A k \in 1..Len(frame.chunks) :
            LET c == frame.chunks[k]
            IN  /\ 0 <= c.meta.start /\ c.meta.start < c.meta.end
                /\ c.meta.end <= Len(frame.raw)
                /\ c.text = filter_text(SubSeq(frame.raw, c.meta.start + 1, c.meta.end))

\* the chunker emitted this text with this metadata
EmittedTogether(text, meta) ==
    \E f \in DocFiles : \E c \in 1..Len(LoadedChunks[f]) :
        LoadedChunks[f][c] = [text |-> text, meta |-> meta]

\* C27: after any sequence of add_document, build_index and release calls,
\* vector i of the index is the embedding of texts[i] and metadata[i] is the
\* metadata the chunker emitted with texts[i], for every i below the vector
\* count; and every result of search is the text and metadata stored at an id
\* the index returned.
C27_VectorTextMetadataCorrespond ==
    LET s == kb["kb"]
    IN  /\ \A i \in 1..VectorCount(s) :
               /\ i <= Len(s.documents) /\ i <= Len(s.metadata)
               /\ s.index.vecs[i] = Embed(s.documents[i], s.index.d)
               /\ EmittedTogether(s.documents[i], s.metadata[i])
        /\ last.op = "search" =>
               LET returned == FaissSearch(s.index, Embed(last.arg, last.dim),
                                           Min(last.top_k, Len(s.documents)))
               IN  \A r \in 1..Len(last.results) :
                       \E h \in 1..Len(returned) :
                           /\ returned[h].id >= 0
                           /\ last.results[r].text = s.documents[returned[h].id + 1]
                           /\ last.results[r].meta = s.metadata[returned[h].id + 1]

\* a search with two results or more over chunks of two files, the second
\* file's appended to the first's
C27_Witness ==
    LET s == kb["kb"]
    IN  /\ last.op = "search" /\ Len(last.results) >= 2
        /\ VectorCount(s) >= 3
        /\ s.metadata[1].source # s.metadata[VectorCount(s)].source

\* the instance holds an index and its dimension field is that index's
DimensionOfIndex(s) ==
    s.index.present =>
        /\ s.dimension # 0
        /\ s.dimension = s.index.d
        /\ \A i \in 1..Len(s.index.vecs) : Len(s.index.vecs[i]) = s.dimension

\* C28: whenever the instance holds an index, its dimension field is set and
\* equals the dimension of that index; an add_document that creates the index
\* sets both to the dimension of its batch, a load_index to that of the index
\* it read, and an add_document on an instance that holds an index changes
\* neither.
C28_DimensionFixedByFirstBatch ==
    [][LET s == kb["kb"]
           t == kb'["kb"]
       IN  /\ DimensionOfIndex(s)
           /\ DimensionOfIndex(t)
           /\ last'.op = "add_document" /\ ~s.index.present /\ t.index.present
                  => t.dimension = last'.dim
           /\ last'.op = "load_index" /\ last'.ret = "True"
                  => t.index.present /\ t.dimension = disk[last'.arg].d
           /\ last'.op = "add_document" /\ s.index.present
                  => t.dimension = s.dimension /\ t.index.d = s.index.d]_vars

\* an instance that holds an index was offered a batch of another dimension
C28_Witness ==
    /\ last.op = "add_document" /\ last.ret = "dimension_mismatch"
    /\ kb["kb"].index.present
    /\ last.dim # kb["kb"].dimension
====
